---------------------------- MODULE Spec2Model ----------------------------
(***************************************************************************)
(* State machine of the PDF reader component App (src/App.tsx) and of the  *)
(* lookup client getWordInsights (src/geminiService.ts).                   *)
(*                                                                         *)
(* Every React state cell of App is a variable; every event handler and    *)
(* every continuation of an awaited promise is one action.  JavaScript     *)
(* strings that the code inspects (trim, truthiness of the text) are       *)
(* sequences of one-character strings; identifiers, colours and view modes *)
(* are TLA+ strings.  scale is kept in tenths (1.2 is 12).                 *)
(***************************************************************************)
EXTENDS Integers, Sequences, FiniteSets, TLC

VARIABLES
    pdfDoc,               \* App.tsx:49  "null" or "pdf"
    numPages,             \* App.tsx:50
    currentPage,          \* App.tsx:51
    highlights,           \* App.tsx:52  sequence of Highlight records
    selectedText,         \* App.tsx:53
    isDictionaryLoading,  \* App.tsx:54
    dictionaryResult,     \* App.tsx:55  <<>> for null, <<r>> for a result r
    showAnnotationModal,  \* App.tsx:56
    activeNote,           \* App.tsx:57
    editingHighlightId,   \* App.tsx:58  Null or an id
    viewMode,             \* App.tsx:60
    scale,                \* App.tsx:61  in tenths
    pendingLoads,         \* onFileChange calls suspended at an await (App.tsx:73-75)
    lookups,              \* getWordInsights calls suspended at the await (geminiService.ts:8)
    effectDeps,           \* App.tsx:108  <<d>>: the dependency values d of the last run of
                          \* the render effect; <<>> after a new document object was set
    renders,              \* renderPage calls suspended at an await (App.tsx:86, 98)
    surfaces,             \* what the canvases of canvasRef1 and canvasRef2 hold (App.tsx:350, 362)
    lastOp                \* the handler that ran last, with its input

vars == <<pdfDoc, numPages, currentPage, highlights, selectedText,
          isDictionaryLoading, dictionaryResult, showAnnotationModal,
          activeNote, editingHighlightId, viewMode, scale, pendingLoads,
          lookups, effectDeps, renders, surfaces, lastOp>>

navVars == <<pdfDoc, numPages, currentPage, viewMode, scale, pendingLoads>>
annVars == <<highlights, selectedText, showAnnotationModal, activeNote,
             editingHighlightId>>
dictVars == <<isDictionaryLoading, dictionaryResult, lookups>>
renderVars == <<effectDeps, renders, surfaces>>

-----------------------------------------------------------------------------
(* Bounds of the model *)

MaxPages == 5
MaxPendingLoads == 2

(* Program constants, in tenths *)

ScaleInit == 12
ScaleMin == 4
ScaleMax == 30
ScaleStep == 1

-----------------------------------------------------------------------------
(* JavaScript values *)

Null == "null"

Op(name, arg) == [name |-> name, arg |-> arg]

Min(a, b) == IF a < b THEN a ELSE b
Max(a, b) == IF a > b THEN a ELSE b

-----------------------------------------------------------------------------
(* Navigation and zoom *)

ViewModes == {"single", "double"}

\* pdf.numPages of the documents a user may load
PageCounts == 1..MaxPages

StepAlwaysOne(mode) == 1

\* const step = viewMode === 'double' ? 2 : 1
StepOf(mode) == IF mode = "double" THEN 2 ELSE 1

PrevPageNoClamp(prev, mode) == prev - StepOf(mode)

\* Math.max(prev - step, 1)
PrevPageTarget(prev, mode) == Max(prev - StepOf(mode), 1)

\* Math.min(prev + step, numPages)
NextPageTarget(prev, mode, n) == Min(prev + StepOf(mode), n)

\* disabled={currentPage <= 1}
PrevDisabled == currentPage <= 1

\* disabled={currentPage >= numPages || (viewMode === 'double' && currentPage >= numPages - 1)}
NextDisabled ==
    \/ currentPage >= numPages
    \/ (viewMode = "double" /\ currentPage >= numPages - 1)

ZoomInNoClamp(prev) == prev + ScaleStep

\* Math.min(prev + 0.1, 3.0)
ZoomInTarget(prev) == Min(prev + ScaleStep, ScaleMax)

\* Math.max(prev - 0.1, 0.4)
ZoomOutTarget(prev) == Max(prev - ScaleStep, ScaleMin)

\* onFileChange up to its first await; the file input is rendered only while
\* no document is loaded.
OnFileChange ==
    /\ pdfDoc = Null
    /\ pendingLoads < MaxPendingLoads
    /\ pendingLoads' = pendingLoads + 1
    /\ lastOp' = Op("onFileChange", pendingLoads)
    /\ UNCHANGED <<pdfDoc, numPages, currentPage, viewMode, scale>>
    /\ UNCHANGED annVars
    /\ UNCHANGED dictVars
    /\ UNCHANGED renderVars

\* onFileChange after loadingTask.promise resolved with a document of n pages;
\* the three setters run in one task and the handler ends with all three set;
\* pdf is a new object, so the render effect's dependencies have changed
LoadResolve(n) ==
    /\ pendingLoads > 0
    /\ pendingLoads' = pendingLoads - 1
    /\ pdfDoc' = "pdf"
    /\ numPages' = n
    /\ currentPage' = 1
    /\ effectDeps' = <<>>
    /\ lastOp' = Op("loadResolve", n)
    /\ UNCHANGED <<viewMode, scale>>
    /\ UNCHANGED annVars
    /\ UNCHANGED dictVars
    /\ UNCHANGED <<renders, surfaces>>

\* file.arrayBuffer() or loadingTask.promise rejects: the rejection leaves
\* onFileChange before any setter is called
LoadReject ==
    /\ pendingLoads > 0
    /\ pendingLoads' = pendingLoads - 1
    /\ lastOp' = Op("loadReject", pendingLoads)
    /\ UNCHANGED <<pdfDoc, numPages, currentPage, viewMode, scale>>
    /\ UNCHANGED annVars
    /\ UNCHANGED dictVars
    /\ UNCHANGED renderVars

PrevPage ==
    /\ pdfDoc # Null
    /\ ~PrevDisabled
    /\ currentPage' = PrevPageTarget(currentPage, viewMode)
    /\ lastOp' = Op("prevPage", currentPage)
    /\ UNCHANGED <<pdfDoc, numPages, viewMode, scale, pendingLoads>>
    /\ UNCHANGED annVars
    /\ UNCHANGED dictVars
    /\ UNCHANGED renderVars

NextPage ==
    /\ pdfDoc # Null
    /\ ~NextDisabled
    /\ currentPage' = NextPageTarget(currentPage, viewMode, numPages)
    /\ lastOp' = Op("nextPage", currentPage)
    /\ UNCHANGED <<pdfDoc, numPages, viewMode, scale, pendingLoads>>
    /\ UNCHANGED annVars
    /\ UNCHANGED dictVars
    /\ UNCHANGED renderVars

\* onClick={() => setViewMode('single')} and onClick={() => setViewMode('double')}
SetViewMode(mode) ==
    /\ pdfDoc # Null
    /\ viewMode' = mode
    /\ lastOp' = Op("setViewMode", viewMode)
    /\ UNCHANGED <<pdfDoc, numPages, currentPage, scale, pendingLoads>>
    /\ UNCHANGED annVars
    /\ UNCHANGED dictVars
    /\ UNCHANGED renderVars

ZoomIn ==
    /\ pdfDoc # Null
    /\ scale' = ZoomInTarget(scale)
    /\ lastOp' = Op("zoomIn", scale)
    /\ UNCHANGED <<pdfDoc, numPages, currentPage, viewMode, pendingLoads>>
    /\ UNCHANGED annVars
    /\ UNCHANGED dictVars
    /\ UNCHANGED renderVars

ZoomOut ==
    /\ pdfDoc # Null
    /\ scale' = ZoomOutTarget(scale)
    /\ lastOp' = Op("zoomOut", scale)
    /\ UNCHANGED <<pdfDoc, numPages, currentPage, viewMode, pendingLoads>>
    /\ UNCHANGED annVars
    /\ UNCHANGED dictVars
    /\ UNCHANGED renderVars

-----------------------------------------------------------------------------
(* Text *)

IsSpace(c) == c = " "

RECURSIVE TrimStart(_)
TrimStart(s) ==
    IF s # <<>> /\ IsSpace(Head(s)) THEN TrimStart(Tail(s)) ELSE s

RECURSIVE TrimEnd(_)
TrimEnd(s) ==
    IF s # <<>> /\ IsSpace(s[Len(s)]) THEN TrimEnd(SubSeq(s, 1, Len(s) - 1)) ELSE s

\* String.prototype.trim
Trim(s) == TrimEnd(TrimStart(s))

\* truthiness of a string, and of string | null
Truthy(s) == s # <<>>
TruthyId(id) == id # Null /\ id # ""

-----------------------------------------------------------------------------
(* Annotation store *)

MaxHighlights == 2

\* e.target.value of the note textarea
NoteInputs == {<<>>, <<" ">>, <<"n">>, <<" ", "n">>}

\* Math.random().toString(36).substr(2, 9); "" is what Math.random() = 0 gives
Ids == {"", "k1", "k2"}

\* c.bg of the entries of COLORS
ColorBgs == {"bg-yellow-200", "bg-blue-200", "bg-green-200", "bg-pink-200"}

HasComment(h) == "comment" \in DOMAIN h

\* h.comment as a condition: an absent or empty comment is falsy
CommentTruthy(h) == HasComment(h) /\ Truthy(h.comment)

\* { ...h, comment: note }
WithComment(h, note) ==
    IF HasComment(h) THEN [h EXCEPT !.comment = note]
    ELSE h @@ ("comment" :> note)

\* the object literal of addHighlight
NewHighlight(id, page, text, color, ts) ==
    [id |-> id, page |-> page, text |-> text, color |-> color,
     timestamp |-> ts, rects |-> <<>>]

\* the object literal of saveHighlight
NewAnnotation(id, page, text, note, ts) ==
    [id |-> id, page |-> page, text |-> text, color |-> "bg-stone-100",
     comment |-> note, timestamp |-> ts, rects |-> <<>>]

\* prev.map(h => h.id === editingHighlightId ? { ...h, comment: activeNote } : h)
MapComment(hs, id, note) ==
    [i \in 1..Len(hs) |-> IF hs[i].id = id THEN WithComment(hs[i], note) ELSE hs[i]]

\* prev.filter(x => x.id !== h.id)
FilterOut(hs, id) == SelectSeq(hs, LAMBDA x : x.id # id)

SaveAlwaysEnabled == TRUE

\* the save button is enabled unless disabled={!activeNote.trim()}
SaveEnabled == Truthy(Trim(activeNote))

\* handleMouseUp; the modal's overlay covers main while it is open
HandleMouseUp(sel) ==
    /\ ~showAnnotationModal
    /\ selectedText' = IF Len(Trim(sel)) > 0 THEN sel ELSE <<>>
    /\ lastOp' = Op("handleMouseUp", 0)
    /\ UNCHANGED <<highlights, showAnnotationModal, activeNote, editingHighlightId>>
    /\ UNCHANGED navVars
    /\ UNCHANGED dictVars
    /\ UNCHANGED renderVars

\* addHighlight(c.bg), from a colour button of the selection toolbar
AddHighlight(color, id, ts) ==
    /\ Truthy(selectedText)
    /\ Len(highlights) < MaxHighlights
    /\ highlights' =
          <<NewHighlight(id, currentPage, selectedText, color, ts)>> \o highlights
    /\ selectedText' = <<>>
    /\ lastOp' = Op("addHighlight", [color |-> color, id |-> id, text |-> selectedText])
    /\ UNCHANGED <<showAnnotationModal, activeNote, editingHighlightId>>
    /\ UNCHANGED navVars
    /\ UNCHANGED dictVars
    /\ UNCHANGED renderVars

\* the 'Anotação' button of the selection toolbar
OpenAnnotation ==
    /\ Truthy(selectedText)
    /\ activeNote' = <<>>
    /\ showAnnotationModal' = TRUE
    /\ lastOp' = Op("openAnnotation", 0)
    /\ UNCHANGED <<highlights, selectedText, editingHighlightId>>
    /\ UNCHANGED navVars
    /\ UNCHANGED dictVars
    /\ UNCHANGED renderVars

\* the X button of the selection toolbar
ClearSelection ==
    /\ Truthy(selectedText)
    /\ selectedText' = <<>>
    /\ lastOp' = Op("clearSelection", 0)
    /\ UNCHANGED <<highlights, showAnnotationModal, activeNote, editingHighlightId>>
    /\ UNCHANGED navVars
    /\ UNCHANGED dictVars
    /\ UNCHANGED renderVars

\* onChange of the textarea
SetActiveNote(value) ==
    /\ showAnnotationModal
    /\ activeNote' = value
    /\ lastOp' = Op("setActiveNote", value)
    /\ UNCHANGED <<highlights, selectedText, showAnnotationModal, editingHighlightId>>
    /\ UNCHANGED navVars
    /\ UNCHANGED dictVars
    /\ UNCHANGED renderVars

\* openEditModal(h), from a click on the i-th card of the sidebar; the card
\* calls it only when h.comment is truthy
OpenEditModal(i) ==
    /\ ~showAnnotationModal
    /\ i \in 1..Len(highlights)
    /\ CommentTruthy(highlights[i])
    /\ selectedText' = highlights[i].text
    /\ activeNote' = highlights[i].comment
    /\ editingHighlightId' = highlights[i].id
    /\ showAnnotationModal' = TRUE
    /\ lastOp' = Op("openEditModal", i)
    /\ UNCHANGED highlights
    /\ UNCHANGED navVars
    /\ UNCHANGED dictVars
    /\ UNCHANGED renderVars

\* closeAnnotationModal, from the X and Cancelar buttons
CloseAnnotationModal ==
    /\ showAnnotationModal
    /\ showAnnotationModal' = FALSE
    /\ editingHighlightId' = Null
    /\ activeNote' = <<>>
    /\ selectedText' = <<>>
    /\ lastOp' = Op("closeAnnotationModal", 0)
    /\ UNCHANGED highlights
    /\ UNCHANGED navVars
    /\ UNCHANGED dictVars
    /\ UNCHANGED renderVars

\* saveHighlight followed by the closeAnnotationModal it calls
SaveHighlight(id, ts) ==
    /\ showAnnotationModal
    /\ SaveEnabled
    /\ IF TruthyId(editingHighlightId)
       THEN highlights' = MapComment(highlights, editingHighlightId, activeNote)
       ELSE /\ Len(highlights) < MaxHighlights
            /\ highlights' =
                  <<NewAnnotation(id, currentPage, selectedText, activeNote, ts)>>
                     \o highlights
    /\ showAnnotationModal' = FALSE
    /\ editingHighlightId' = Null
    /\ activeNote' = <<>>
    /\ selectedText' = <<>>
    /\ lastOp' = Op("saveHighlight",
                    [editing |-> editingHighlightId, note |-> activeNote,
                     id |-> id, text |-> selectedText])
    /\ UNCHANGED navVars
    /\ UNCHANGED dictVars
    /\ UNCHANGED renderVars

\* the delete button of the i-th card of the sidebar
DeleteHighlight(i) ==
    /\ i \in 1..Len(highlights)
    /\ highlights' = FilterOut(highlights, highlights[i].id)
    /\ lastOp' = Op("deleteHighlight", i)
    /\ UNCHANGED <<selectedText, showAnnotationModal, activeNote, editingHighlightId>>
    /\ UNCHANGED navVars
    /\ UNCHANGED dictVars
    /\ UNCHANGED renderVars

-----------------------------------------------------------------------------
(* Lookup client *)

MaxInFlight == 2

\* response.text of the responses the service may give
ResponseTexts ==
    {"{\"word\":\"a\",\"meaning\":\"m\",\"synonyms\":[\"s1\",\"s2\",\"s3\"]}",
     "{\"word\":\"a\"}",
     "null",
     "{\"word\":\"a\",",
     ""}

\* JSON.parse: ok is FALSE where it throws a SyntaxError; a parsed null is
\* <<>> and a parsed object o is <<o>>
JsonParse(t) ==
    CASE t = "{\"word\":\"a\",\"meaning\":\"m\",\"synonyms\":[\"s1\",\"s2\",\"s3\"]}" ->
            [ok |-> TRUE,
             value |-> <<[word |-> <<"a">>, meaning |-> "m",
                          synonyms |-> <<"s1", "s2", "s3">>]>>]
      [] t = "{\"word\":\"a\"}" ->
            [ok |-> TRUE, value |-> <<[word |-> <<"a">>]>>]
      [] t = "null" ->
            [ok |-> TRUE, value |-> <<>>]
      [] OTHER ->  \* truncated or empty text; an undefined text throws as well
            [ok |-> FALSE, value |-> <<>>]

NotFoundMeaning == "Não foi possível encontrar a definição."

GetWordInsightsNoCatch(text, body) ==
    [threw |-> ~JsonParse(body).ok, value |-> JsonParse(body).value]

\* getWordInsights after the await, for the response text body: what it
\* returns, or threw when an exception leaves it
GetWordInsights(text, body) ==
    IF JsonParse(body).ok
    THEN [threw |-> FALSE, value |-> JsonParse(body).value]
    ELSE [threw |-> FALSE,
          value |-> <<[word |-> text, meaning |-> NotFoundMeaning,
                       synonyms |-> <<>>]>>]

RemoveAt(s, i) == SubSeq(s, 1, i - 1) \o SubSeq(s, i + 1, Len(s))

\* fetchDictionary up to the await of generateContent
FetchDictionary ==
    /\ Truthy(selectedText)
    /\ Len(lookups) < MaxInFlight
    /\ isDictionaryLoading' = TRUE
    /\ lookups' = Append(lookups, selectedText)
    /\ lastOp' = Op("fetchDictionary", selectedText)
    /\ UNCHANGED dictionaryResult
    /\ UNCHANGED navVars
    /\ UNCHANGED annVars
    /\ UNCHANGED renderVars

\* generateContent resolves for the i-th call in flight; getWordInsights
\* returns and fetchDictionary runs to its end
LookupResolve(i, body) ==
    /\ i \in 1..Len(lookups)
    /\ LET r == GetWordInsights(lookups[i], body) IN
         /\ IF r.threw
            THEN UNCHANGED <<dictionaryResult, isDictionaryLoading>>
            ELSE /\ dictionaryResult' = r.value
                 /\ isDictionaryLoading' = FALSE
         /\ lastOp' = Op("lookupResolve",
                         [text |-> lookups[i], body |-> body, result |-> r])
    /\ lookups' = RemoveAt(lookups, i)
    /\ UNCHANGED navVars
    /\ UNCHANGED annVars
    /\ UNCHANGED renderVars

\* generateContent rejects for the i-th call in flight: the rejection leaves
\* getWordInsights and fetchDictionary
LookupReject(i) ==
    /\ i \in 1..Len(lookups)
    /\ lookups' = RemoveAt(lookups, i)
    /\ lastOp' = Op("lookupReject", lookups[i])
    /\ UNCHANGED <<dictionaryResult, isDictionaryLoading>>
    /\ UNCHANGED navVars
    /\ UNCHANGED annVars
    /\ UNCHANGED renderVars

\* 'Limpar consulta', rendered with a result when no lookup is loading
ClearDictionary ==
    /\ ~isDictionaryLoading
    /\ dictionaryResult # <<>>
    /\ dictionaryResult' = <<>>
    /\ lastOp' = Op("clearDictionary", 0)
    /\ UNCHANGED <<isDictionaryLoading, lookups>>
    /\ UNCHANGED navVars
    /\ UNCHANGED annVars
    /\ UNCHANGED renderVars

-----------------------------------------------------------------------------
(* Page rendering: renderPage and the render effect, App.tsx:83-108 *)

\* renderPage calls that may be suspended at one time
MaxRenders == 3

\* The values the render effect depends on (App.tsx:108); renderPage is a
\* new function whenever pdfDoc, scale or numPages changes (App.tsx:99)
Deps ==
    [pdfDoc |-> pdfDoc, currentPage |-> currentPage, numPages |-> numPages,
     scale |-> scale, viewMode |-> viewMode]

\* The render effect has run for the state as it is now
EffectsFlushed == effectDeps = <<Deps>>

\* The first canvas is in the tree once a document is loaded (App.tsx:340-350)
Canvas1Mounted == pdfDoc # Null

\* The second canvas is in the tree under the condition of App.tsx:360
Canvas2Mounted ==
    pdfDoc # Null /\ viewMode = "double" /\ currentPage + 1 <= numPages

\* A canvas nothing has been drawn on; width 0 stands for the default size
BlankCanvas == [width |-> 0, image |-> <<>>]

\* A canvas sized for scale sc that shows page at that scale
Rendered(page, sc) ==
    [width |-> sc, image |-> <<[page |-> page, scale |-> sc]>>]

\* renderPage up to its first await (App.tsx:84-86): nothing is started
\* without a document or a canvas or for a page outside 1..numPages; the
\* call keeps the canvas element and the scale of the render that made it
RenderPage(surface, pageNumber, canvas) ==
    IF pdfDoc = Null \/ ~canvas \/ pageNumber > numPages \/ pageNumber < 1
    THEN <<>>
    ELSE <<[surface |-> surface, page |-> pageNumber, scale |-> scale,
            stage |-> "getPage", attached |-> TRUE]>>

EffectRendersFirstOnly ==
    IF pdfDoc # Null
    THEN RenderPage(1, currentPage, Canvas1Mounted)
    ELSE <<>>

\* The body of the render effect (App.tsx:102-107)
EffectRenders ==
    IF pdfDoc # Null
    THEN RenderPage(1, currentPage, Canvas1Mounted)
         \o (IF viewMode = "double" /\ currentPage + 1 <= numPages
             THEN RenderPage(2, currentPage + 1, Canvas2Mounted)
             ELSE <<>>)
    ELSE <<>>

\* Suspended calls keep the canvas element they were given: once the second
\* canvas has left the tree they hold an element that is no longer shown
Detach(rs) ==
    [i \in 1..Len(rs) |->
        IF rs[i].surface = 2 /\ ~Canvas2Mounted
        THEN [rs[i] EXCEPT !.attached = FALSE]
        ELSE rs[i]]

\* The canvas element of call r is the one shown on r's surface
Shown(r) == r.attached /\ (r.surface = 1 \/ Canvas2Mounted)

\* The render effect, run by React after the commit that changed one of its
\* dependencies: a second canvas that left the tree is gone with what it
\* showed, and the effect starts its renders without touching earlier ones
RenderEffect ==
    /\ ~EffectsFlushed
    /\ Len(renders) + Len(EffectRenders) <= MaxRenders
    /\ effectDeps' = <<Deps>>
    /\ renders' = Detach(renders) \o EffectRenders
    /\ surfaces' = [surfaces EXCEPT ![2] = IF Canvas2Mounted THEN @ ELSE BlankCanvas]
    /\ lastOp' = Op("renderEffect", Deps)
    /\ UNCHANGED navVars
    /\ UNCHANGED annVars
    /\ UNCHANGED dictVars

\* renderPage after pdfDoc.getPage resolved (App.tsx:86-98): assigning
\* canvas.height and canvas.width resizes and clears the canvas, then
\* page.render is called and awaited
GetPageResolve(i) ==
    /\ i \in 1..Len(renders)
    /\ renders[i].stage = "getPage"
    /\ renders' = [renders EXCEPT ![i].stage = "render"]
    /\ surfaces' = IF Shown(renders[i])
                   THEN [surfaces EXCEPT ![renders[i].surface] =
                            [width |-> renders[i].scale, image |-> <<>>]]
                   ELSE surfaces
    /\ lastOp' = Op("getPageResolve", renders[i])
    /\ UNCHANGED effectDeps
    /\ UNCHANGED navVars
    /\ UNCHANGED annVars
    /\ UNCHANGED dictVars

\* page.render(...).promise resolved (App.tsx:98): the page is drawn on the
\* canvas the call was given, and renderPage returns
RenderResolve(i) ==
    /\ i \in 1..Len(renders)
    /\ renders[i].stage = "render"
    /\ renders' = RemoveAt(renders, i)
    /\ surfaces' = IF Shown(renders[i])
                   THEN [surfaces EXCEPT ![renders[i].surface].image =
                            <<[page |-> renders[i].page, scale |-> renders[i].scale]>>]
                   ELSE surfaces
    /\ lastOp' = Op("renderResolve", renders[i])
    /\ UNCHANGED effectDeps
    /\ UNCHANGED navVars
    /\ UNCHANGED annVars
    /\ UNCHANGED dictVars

\* The awaited promise of either await rejects: renderPage's own promise
\* rejects, and nobody handles it (App.tsx:103, 105)
RenderReject(i) ==
    /\ i \in 1..Len(renders)
    /\ renders' = RemoveAt(renders, i)
    /\ lastOp' = Op("renderReject", renders[i])
    /\ UNCHANGED <<effectDeps, surfaces>>
    /\ UNCHANGED navVars
    /\ UNCHANGED annVars
    /\ UNCHANGED dictVars

-----------------------------------------------------------------------------
(* Specifications *)

Init ==
    /\ pdfDoc = Null
    /\ numPages = 0
    /\ currentPage = 1
    /\ highlights = <<>>
    /\ selectedText = <<>>
    /\ isDictionaryLoading = FALSE
    /\ dictionaryResult = <<>>
    /\ showAnnotationModal = FALSE
    /\ activeNote = <<>>
    /\ editingHighlightId = Null
    /\ viewMode = "double"
    /\ scale = ScaleInit
    /\ pendingLoads = 0
    /\ lookups = <<>>
    /\ effectDeps = <<Deps>>
    /\ renders = <<>>
    /\ surfaces = <<BlankCanvas, BlankCanvas>>
    /\ lastOp = Op("init", 0)

NextNav ==
    \/ OnFileChange
    \/ \E n \in PageCounts : LoadResolve(n)
    \/ LoadReject
    \/ PrevPage
    \/ NextPage
    \/ \E mode \in ViewModes : SetViewMode(mode)
    \/ ZoomIn
    \/ ZoomOut

\* Document, pagination, view mode and zoom
SpecNav == Init /\ [][NextNav]_vars

\* A document is open at one of its pages: a state SpecNav reaches
AnnPages == 2

InitAnn ==
    /\ pdfDoc = "pdf"
    /\ numPages = AnnPages
    /\ currentPage \in 1..AnnPages
    /\ highlights = <<>>
    /\ selectedText = <<>>
    /\ isDictionaryLoading = FALSE
    /\ dictionaryResult = <<>>
    /\ showAnnotationModal = FALSE
    /\ activeNote = <<>>
    /\ editingHighlightId = Null
    /\ viewMode = "double"
    /\ scale = ScaleInit
    /\ pendingLoads = 0
    /\ lookups = <<>>
    /\ effectDeps = <<Deps>>
    /\ renders = <<>>
    /\ surfaces = <<Rendered(currentPage, scale),
                    IF Canvas2Mounted THEN Rendered(currentPage + 1, scale)
                                      ELSE BlankCanvas>>
    /\ lastOp = Op("init", 0)

AnnSelections == {<<>>, <<" ">>, <<"a">>, <<"a", " ">>}
AnnColors == {"bg-yellow-200", "bg-blue-200"}
AnnTimestamps == {1, 2}

NextAnn ==
    \/ \E sel \in AnnSelections : HandleMouseUp(sel)
    \/ \E color \in AnnColors, id \in Ids, ts \in AnnTimestamps :
          AddHighlight(color, id, ts)
    \/ OpenAnnotation
    \/ ClearSelection
    \/ \E value \in NoteInputs : SetActiveNote(value)
    \/ \E i \in 1..MaxHighlights : OpenEditModal(i)
    \/ CloseAnnotationModal
    \/ \E id \in Ids, ts \in AnnTimestamps : SaveHighlight(id, ts)
    \/ \E i \in 1..MaxHighlights : DeleteHighlight(i)

\* Annotation store on an open document
SpecAnn == InitAnn /\ [][NextAnn]_vars

NoteSelections == {<<>>, <<"a">>}
NoteColors == {"bg-yellow-200"}
NoteIds == {"", "k1"}
NoteTimestamps == {1}

NextNote ==
    \/ \E sel \in NoteSelections : HandleMouseUp(sel)
    \/ \E color \in NoteColors, id \in NoteIds, ts \in NoteTimestamps :
          AddHighlight(color, id, ts)
    \/ OpenAnnotation
    \/ ClearSelection
    \/ \E value \in NoteInputs : SetActiveNote(value)
    \/ \E i \in 1..MaxHighlights : OpenEditModal(i)
    \/ CloseAnnotationModal
    \/ \E id \in NoteIds, ts \in NoteTimestamps : SaveHighlight(id, ts)
    \/ \E i \in 1..MaxHighlights : DeleteHighlight(i)

\* The annotation editor, from the state after construction
SpecNote == Init /\ [][NextNote]_vars

NextLookup ==
    \/ \E sel \in AnnSelections : HandleMouseUp(sel)
    \/ ClearSelection
    \/ FetchDictionary
    \/ \E i \in 1..MaxInFlight, body \in ResponseTexts : LookupResolve(i, body)
    \/ \E i \in 1..MaxInFlight : LookupReject(i)
    \/ ClearDictionary

\* The dictionary panel and the lookup client
SpecLookup == Init /\ [][NextLookup]_vars

\* Pages of the document open while renders are followed
RenderPages == 3

\* Zoom-in steps taken from the initial scale while renders are followed
ZoomWindow == 1

\* A document of RenderPages pages has just been loaded: the state LoadResolve
\* leaves, with the render effect still to run
InitRender ==
    /\ pdfDoc = "pdf"
    /\ numPages = RenderPages
    /\ currentPage = 1
    /\ highlights = <<>>
    /\ selectedText = <<>>
    /\ isDictionaryLoading = FALSE
    /\ dictionaryResult = <<>>
    /\ showAnnotationModal = FALSE
    /\ activeNote = <<>>
    /\ editingHighlightId = Null
    /\ viewMode = "double"
    /\ scale = ScaleInit
    /\ pendingLoads = 0
    /\ lookups = <<>>
    /\ effectDeps = <<>>
    /\ renders = <<>>
    /\ surfaces = <<BlankCanvas, BlankCanvas>>
    /\ lastOp = Op("loadResolve", RenderPages)

\* React runs a pending effect before it handles the next event, so the
\* handlers run with the render effect flushed
NextRender ==
    \/ EffectsFlushed /\ PrevPage
    \/ EffectsFlushed /\ NextPage
    \/ EffectsFlushed /\ \E mode \in ViewModes : SetViewMode(mode)
    \/ EffectsFlushed /\ scale < ScaleInit + ZoomWindow /\ ZoomIn
    \/ EffectsFlushed /\ scale > ScaleInit /\ ZoomOut
    \/ RenderEffect
    \/ \E i \in 1..MaxRenders : GetPageResolve(i)
    \/ \E i \in 1..MaxRenders : RenderResolve(i)
    \/ \E i \in 1..MaxRenders : RenderReject(i)

\* Navigation, view mode and zoom with the renders they start
SpecRender == InitRender /\ [][NextRender]_vars

Next ==
    \/ NextNav
    \/ NextAnn
    \/ NextLookup
    \/ NextRender

\* The whole component
Spec == Init /\ [][Next]_vars

-----------------------------------------------------------------------------
(* Properties *)

Odd(n) == n % 2 = 1

Loaded == pdfDoc # Null /\ numPages >= 1

\* C1: once a document with numPages >= 1 is loaded, currentPage is within
\* 1..numPages after every navigation, view-mode change and load.
C1_CurrentPageInRange ==
    Loaded => (1 <= currentPage /\ currentPage <= numPages)

\* C1 witness: nextPage has just moved a loaded document to its last page.
C1_Witness ==
    /\ Loaded
    /\ lastOp.name = "nextPage"
    /\ numPages >= 3
    /\ currentPage = numPages

\* C2: in double-page mode currentPage is odd, so the displayed pair is an
\* odd/even pair, whatever navigation and view-mode switches came before.
C2_DoublePairStartsOdd ==
    (Loaded /\ viewMode = "double") => Odd(currentPage)

\* The part of C2 the code keeps: while the view stays double, load and
\* navigation take an odd currentPage to an odd currentPage.
DoubleNavigationKeepsParity ==
    [][(viewMode = "double" /\ viewMode' = "double" /\ Odd(currentPage))
          => Odd(currentPage')]_vars

\* C3: nextPage sets currentPage to min(currentPage + step, numPages) and
\* prevPage to max(currentPage - step, 1), with step 2 in double mode and 1 in
\* single mode; the result never wraps around.
C3_NavigationStep ==
    [][LET step == IF viewMode = "double" THEN 2 ELSE 1 IN
        /\ lastOp'.name = "nextPage" =>
              /\ currentPage' =
                    (IF currentPage + step <= numPages
                     THEN currentPage + step ELSE numPages)
              /\ currentPage' >= currentPage
        /\ lastOp'.name = "prevPage" =>
              /\ currentPage' =
                    (IF currentPage - step >= 1 THEN currentPage - step ELSE 1)
              /\ currentPage' <= currentPage]_vars

\* C3 witness: prevPage in double mode from page 2 was clamped to page 1.
C3_Witness ==
    /\ lastOp.name = "prevPage"
    /\ lastOp.arg = 2
    /\ viewMode = "double"
    /\ currentPage = 1

UniqueIds(hs) ==
    \A i, j \in 1..Len(hs) : i # j => hs[i].id # hs[j].id

\* C4: every record of highlights has an id distinct from the id of every
\* other record, in every reachable state.
C4_UniqueIds == UniqueIds(highlights)

\* C5: addHighlight(C) on page P with selection T makes highlights equal to
\* the new record followed by the previous collection; the new record has a
\* fresh id, page P, text T, colour C and no comment.
C5_AddHighlight ==
    [][lastOp'.name = "addHighlight" =>
        /\ Len(highlights') = Len(highlights) + 1
        /\ Tail(highlights') = highlights
        /\ \A i \in 1..Len(highlights) : highlights[i].id # Head(highlights').id
        /\ Head(highlights').page = currentPage
        /\ Head(highlights').text = selectedText
        /\ Head(highlights').color = lastOp'.arg.color
        /\ ~HasComment(Head(highlights'))]_vars

\* The part of C5 that does not speak of the id.
AddHighlightPrepends ==
    [][lastOp'.name = "addHighlight" =>
        /\ Len(highlights') = Len(highlights) + 1
        /\ Tail(highlights') = highlights
        /\ Head(highlights').page = currentPage
        /\ Head(highlights').text = selectedText
        /\ Head(highlights').color = lastOp'.arg.color
        /\ ~HasComment(Head(highlights'))]_vars

\* C6: deleting removes exactly the record the user chose, keeps the others
\* in their order, and an id that is not in the collection removes nothing.
C6_DeleteExactlyOne ==
    /\ [](\A id \in Ids :
            (\A i \in 1..Len(highlights) : highlights[i].id # id)
               => FilterOut(highlights, id) = highlights)
    /\ [][lastOp'.name = "deleteHighlight" =>
            highlights' = RemoveAt(highlights, lastOp'.arg)]_vars

\* C6 where the ids of the collection are pairwise distinct.
DeleteExactlyOneOfUniqueIds ==
    [][(lastOp'.name = "deleteHighlight" /\ UniqueIds(highlights)) =>
            highlights' = RemoveAt(highlights, lastOp'.arg)]_vars

SameButComment(h, g) ==
    /\ h.id = g.id
    /\ h.page = g.page
    /\ h.text = g.text
    /\ h.color = g.color
    /\ h.timestamp = g.timestamp

\* C7: saving while the editor edits an existing record changes only that
\* record's comment: the collection keeps its length and order, no other
\* record changes, and the record keeps id, page, text, color and timestamp.
C7_EditChangesOnlyComment ==
    [][(lastOp'.name = "saveHighlight" /\ editingHighlightId # Null) =>
        /\ Len(highlights') = Len(highlights)
        /\ Cardinality({i \in 1..Len(highlights) :
                            highlights'[i] # highlights[i]}) <= 1
        /\ \A i \in 1..Len(highlights) :
              /\ SameButComment(highlights'[i], highlights[i])
              /\ highlights'[i] # highlights[i] =>
                    /\ highlights[i].id = editingHighlightId
                    /\ highlights'[i].comment = activeNote]_vars

\* C7 where the ids of the collection are pairwise distinct and not empty.
EditChangesOnlyCommentOfUniqueIds ==
    [][(/\ lastOp'.name = "saveHighlight"
        /\ editingHighlightId # Null
        /\ editingHighlightId # ""
        /\ UniqueIds(highlights)) =>
        /\ Len(highlights') = Len(highlights)
        /\ Cardinality({i \in 1..Len(highlights) :
                            highlights'[i] # highlights[i]}) <= 1
        /\ \A i \in 1..Len(highlights) :
              /\ SameButComment(highlights'[i], highlights[i])
              /\ highlights'[i] # highlights[i] =>
                    /\ highlights[i].id = editingHighlightId
                    /\ highlights'[i].comment = activeNote]_vars

Blank(s) == \A i \in 1..Len(s) : s[i] = " "

\* C8: a save with an empty or whitespace-only note buffer is rejected: no
\* step of saveHighlight starts from such a buffer, so the collection, the
\* buffer, the selection, editingHighlightId and the open modal are as they
\* were; and no record carries an empty or whitespace-only comment.
C8_BlankNoteRejected ==
    /\ [](\A i \in 1..Len(highlights) :
            HasComment(highlights[i]) => ~Blank(highlights[i].comment))
    /\ [][Blank(activeNote) => lastOp'.name # "saveHighlight"]_vars

\* C8 witness: the editor is open on a whitespace-only buffer while a record
\* with a comment exists.
C8_Witness ==
    /\ showAnnotationModal
    /\ activeNote = <<" ">>
    /\ \E i \in 1..Len(highlights) : HasComment(highlights[i])

\* C9: scale stays within 4..30 tenths; zoomIn yields min(scale + 1, 30) and
\* zoomOut yields max(scale - 1, 4).
C9_Zoom ==
    /\ [](4 <= scale /\ scale <= 30)
    /\ [][/\ lastOp'.name = "zoomIn" =>
                scale' = (IF scale + 1 <= 30 THEN scale + 1 ELSE 30)
          /\ lastOp'.name = "zoomOut" =>
                scale' = (IF scale - 1 >= 4 THEN scale - 1 ELSE 4)]_vars

\* C9 witness: zoomIn at the upper limit left scale at 30.
C9_Witness ==
    /\ lastOp.name = "zoomIn"
    /\ lastOp.arg = 30
    /\ scale = 30

\* C10: the lookup returns the parsed response unchanged when the response
\* text parses as JSON, returns {word: text, meaning: the not-found message,
\* synonyms: []} when it does not, and never throws on a parse failure.
C10_LookupResult ==
    lastOp.name = "lookupResolve" =>
        /\ ~lastOp.arg.result.threw
        /\ lastOp.arg.result.value =
              (IF JsonParse(lastOp.arg.body).ok
               THEN JsonParse(lastOp.arg.body).value
               ELSE <<[word |-> lastOp.arg.text,
                       meaning |-> "Não foi possível encontrar a definição.",
                       synonyms |-> <<>>]>>)
        /\ dictionaryResult = lastOp.arg.result.value

\* C10 witness: an unparseable response has put the fallback for the text
\* "a " in the panel.
C10_Witness ==
    /\ lastOp.name = "lookupResolve"
    /\ ~JsonParse(lastOp.arg.body).ok
    /\ lastOp.arg.text = <<"a", " ">>
    /\ dictionaryResult =
          <<[word |-> <<"a", " ">>,
             meaning |-> "Não foi possível encontrar a definição.",
             synonyms |-> <<>>]>>

\* C11: the loading flag prevents a second submission: at most one lookup is
\* in flight at any time, and isDictionaryLoading is true exactly while one is.
C11_SingleLookupInFlight ==
    /\ Len(lookups) <= 1
    /\ isDictionaryLoading <=> (Len(lookups) = 1)

\* C12: when the request rejects, fetchDictionary leaves isDictionaryLoading
\* true and dictionaryResult unchanged, and nothing but the completion of a
\* lookup resets the flag.
C12_RejectedLookupKeepsLoading ==
    [][/\ lastOp'.name = "lookupReject" =>
             /\ isDictionaryLoading'
             /\ dictionaryResult' = dictionaryResult
       /\ (isDictionaryLoading /\ ~isDictionaryLoading') =>
             lastOp'.name = "lookupResolve"]_vars

\* The part of C12 the code keeps with any number of lookups in flight: a
\* rejection changes neither the flag nor the result, and only the
\* completion of a lookup resets the flag.
RejectedLookupChangesNothing ==
    [][/\ lastOp'.name = "lookupReject" =>
             /\ isDictionaryLoading' = isDictionaryLoading
             /\ dictionaryResult' = dictionaryResult
       /\ (isDictionaryLoading /\ ~isDictionaryLoading') =>
             lastOp'.name = "lookupResolve"]_vars

RenderCompletions == {"getPageResolve", "renderResolve", "renderReject"}

\* What a resolved render r has drawn
OutputOf(r) == <<[page |-> r.page, scale |-> r.scale]>>

\* A change of currentPage, scale or viewMode on a loaded document leaves the
\* render effect to run, and no handler runs before it has
ChangeSchedulesEffect ==
    /\ (pdfDoc' # Null /\ <<currentPage', scale', viewMode'>> # <<currentPage, scale, viewMode>>)
          => ~EffectsFlushed'
    /\ (pdfDoc # Null /\ ~EffectsFlushed)
          => lastOp'.name \in RenderCompletions \cup {"renderEffect"}

\* The effect starts a render of currentPage on the first surface, and one of
\* currentPage + 1 on the second exactly when the mode is double and that
\* page exists; both take the scale of the moment
EffectStartsRenders ==
    (pdfDoc # Null /\ lastOp'.name = "renderEffect") =>
        LET n == Len(renders)
            both == viewMode = "double" /\ currentPage + 1 <= numPages
        IN  /\ Len(renders') = n + (IF both THEN 2 ELSE 1)
            /\ renders'[n + 1] = [surface |-> 1, page |-> currentPage,
                                  scale |-> scale, stage |-> "getPage",
                                  attached |-> TRUE]
            /\ both => renders'[n + 2] = [surface |-> 2, page |-> currentPage + 1,
                                          scale |-> scale, stage |-> "getPage",
                                          attached |-> TRUE]

\* A render leaves the in-flight renders only by settling itself
NeverCancelled ==
    /\ lastOp'.name \notin {"renderResolve", "renderReject"} =>
          /\ Len(renders') >= Len(renders)
          /\ \A i \in 1..Len(renders) :
                /\ renders'[i].surface = renders[i].surface
                /\ renders'[i].page = renders[i].page
                /\ renders'[i].scale = renders[i].scale
    /\ lastOp'.name \in {"renderResolve", "renderReject"} =>
          \E i \in 1..Len(renders) :
                /\ renders[i] = lastOp'.arg
                /\ renders' = RemoveAt(renders, i)

\* A render completion modifies no view state and no highlight
CompletionKeepsState ==
    lastOp'.name \in RenderCompletions =>
        UNCHANGED <<currentPage, numPages, scale, viewMode, highlights>>

\* C13 as stated: every change of currentPage, scale or viewMode on a loaded
\* document starts a render of currentPage on the first surface and, only in
\* double mode with currentPage + 1 <= numPages, of currentPage + 1 on the
\* second; no in-flight render is cancelled; whenever a render resolves, the
\* surface it was started on shows its output from then on; and no render
\* completion modifies currentPage, numPages, scale, viewMode or highlights.
C13_LastResolvedRenderWins ==
    [][/\ ChangeSchedulesEffect
       /\ EffectStartsRenders
       /\ NeverCancelled
       /\ CompletionKeepsState
       /\ lastOp'.name = "renderResolve" =>
             LET r == lastOp'.arg IN
                 (r.surface = 1 \/ Canvas2Mounted) =>
                     surfaces'[r.surface].image = OutputOf(r)]_vars

\* C13 amended: as above, but a resolved render is drawn on the canvas
\* element its call was given. That element is the one shown unless the
\* second canvas left the tree after the render started: then the resolved
\* render changes nothing that is shown, and otherwise its surface shows its
\* output and the other surface is left alone.
C13_LastResolvedRenderOfCanvasWins ==
    [][/\ ChangeSchedulesEffect
       /\ EffectStartsRenders
       /\ NeverCancelled
       /\ CompletionKeepsState
       /\ lastOp'.name = "renderResolve" =>
             LET r == lastOp'.arg IN
                 IF r.attached /\ (r.surface = 1 \/ Canvas2Mounted)
                 THEN /\ surfaces'[r.surface].image = OutputOf(r)
                      /\ surfaces'[3 - r.surface] = surfaces[3 - r.surface]
                 ELSE surfaces' = surfaces]_vars

\* An earlier render of the first surface resolved after the later one: no
\* render is in flight and the surface shows a page that is not currentPage
C13_Witness ==
    /\ lastOp.name = "renderResolve"
    /\ lastOp.arg.surface = 1
    /\ lastOp.arg.page # currentPage
    /\ surfaces[1].image = OutputOf(lastOp.arg)
    /\ EffectsFlushed
    /\ renders = <<>>

=============================================================================
